---- MODULE Spec2Model ----
(***************************************************************************)
(* A model of manage.py: the bundle assembly pipeline                      *)
(* (create_deployment_bundle), the validators, _copytree and               *)
(* _render_configuration.                                                  *)
(*                                                                         *)
(* The filesystem is a function from paths to nodes.  A path is a sequence *)
(* of names relative to the working directory; a node is a directory, a    *)
(* regular file with its content, or a symbolic link with its target.      *)
(* Every node carries "born": "old" for a node left as it was when the     *)
(* operation under study started, "new" for one created or written since.  *)
(***************************************************************************)
EXTENDS Integers, Sequences, FiniteSets, TLC

VARIABLES
    fs,      \* the filesystem: [path -> node]
    pc,      \* the control point of the running operation
    args,    \* the arguments of the running operation
    todo,    \* the items the current loop still has to visit, in order
    cur,     \* the item the current loop is at (a path, or <<>>)
    calls,   \* the remote calls made so far, in order
    res,     \* the outcome of the operation: [exc, errors]
    faults   \* the paths whose access fails, and how: [path -> kind]

vars == <<fs, pc, args, todo, cur, calls, res, faults>>

----------------------------------------------------------------------------
(* Program constants                                                       *)

S3_BUCKET == "kinja-cloudformation-validator"
CLOUDFORMATION_LOCAL_VALIDATE_LIMIT == 51200
DEFAULT_BUNDLE_DIRECTORY == "build"
CONFIGURATION_DIRECTORY == "configs"
CLOUDFORMATION_DIRECTORY == "cloudformation"
LAMBDA_DIRECTORY == "lambdas"
LAMBDA_PY_FILE_NAME == "function.py"
LAMBDA_REQUIRED_FILES == <<LAMBDA_PY_FILE_NAME, "requirements.txt">>
TMP_DIR == ".tmp"

----------------------------------------------------------------------------
(* Bounds of the model                                                     *)

MaxDepth == 1      \* nesting depth of the directories handed to _copytree
MaxFaults == 2     \* failing entries in a tree handed to _copytree
MaxMembers == 2    \* members of a JSON object in a configuration file
MaxTemplates == 2  \* templates in cloudformation/
SizeSpread == 1    \* template sizes lie within this many bytes of the limit
MaxExtras == 1     \* auxiliary files in a Lambda bundle
MaxBundles == 2    \* Lambda bundles in lambdas/
MaxConfigs == 1    \* configuration files in configs/

----------------------------------------------------------------------------
(* Paths and nodes                                                         *)

DirNode(b) == [kind |-> "dir", born |-> b]
FileNode(d, b) == [kind |-> "file", data |-> d, born |-> b]
LinkNode(t, b) == [kind |-> "link", to |-> t, born |-> b]

Blob(id) == [t |-> "blob", id |-> id]

Join(p, name) == Append(p, name)
Basename(p) == p[Len(p)]
Parent(p) == SubSeq(p, 1, Len(p) - 1)
IsPrefix(p, q) == Len(p) <= Len(q) /\ SubSeq(q, 1, Len(p)) = p
Under(f, p) == {q \in DOMAIN f : IsPrefix(p, q)}
Below(f, p) == {q \in DOMAIN f : IsPrefix(p, q) /\ q # p}

\* str.endswith
EndsWith(name, ext) ==
    /\ Len(name) >= Len(ext)
    /\ SubSeq(name, Len(name) - Len(ext) + 1, Len(name)) = ext

\* The node a path names once a symbolic link at its end is followed.
Resolve(f, p) == IF p \in DOMAIN f /\ f[p].kind = "link" THEN f[p].to ELSE p
Exists(f, p) == Resolve(f, p) \in DOMAIN f             \* os.path.exists
IsDir(f, p) == Exists(f, p) /\ f[Resolve(f, p)].kind = "dir"    \* os.path.isdir
IsFile(f, p) == Exists(f, p) /\ f[Resolve(f, p)].kind = "file"  \* os.path.isfile
IsLink(f, p) == p \in DOMAIN f /\ f[p].kind = "link"            \* os.path.islink

Put(f, p, node) == [q \in DOMAIN f \cup {p} |-> IF q = p THEN node ELSE f[q]]
Remove(f, ps) == [q \in DOMAIN f \ ps |-> f[q]]

FaultAt(flt, p) == IF p \in DOMAIN flt THEN flt[p] ELSE "none"
NoFaults == [p \in {} |-> "none"]

\* An outcome: the filesystem left behind, the exception raised ("none" when
\* the call returned) and, for shutil.Error, the failures it lists.
Outcome(f, e, errs) == [fs |-> f, exc |-> e, errors |-> errs]
Ok(f) == Outcome(f, "none", <<>>)

----------------------------------------------------------------------------
(* Filesystem primitives                                                   *)

\* the names the entries of the directories bear
BundleName(i) == "b" \o ToString(i)
TemplateName(i) == "t" \o ToString(i) \o ".yaml"
ConfigName(i) == "c" \o ToString(i) \o ".json"

\* os.listdir returns the names in an arbitrary order: one order and its
\* reverse stand for them
NameOrder ==
    <<"d", "f", "l", "t", "gone", "README", "README.txt", LAMBDA_PY_FILE_NAME,
      "function.pyc", "requirements.txt">>
        \o [i \in 1..MaxBundles |-> BundleName(i)]
        \o [i \in 1..MaxTemplates |-> TemplateName(i)]
        \o <<"site.py", "notes.txt", "old.txt", "junk", LAMBDA_DIRECTORY,
              CLOUDFORMATION_DIRECTORY, CONFIGURATION_DIRECTORY>>
        \o [i \in 1..MaxBundles |-> BundleName(i) \o ".zip"]
        \o [i \in 1..MaxConfigs |-> ConfigName(i)]
Reverse(s) == [i \in 1..Len(s) |-> s[Len(s) + 1 - i]]
Range(s) == {s[i] : i \in DOMAIN s}
ListOrders == {NameOrder, Reverse(NameOrder)}

\* os.listdir: the names in a directory, in the order the filesystem gives
\* them (ord ranks all names; the order is not the program's to choose).
ListDir(f, d, ord) == SelectSeq(ord, LAMBDA n : Join(d, n) \in DOMAIN f)

\* the entries of one directory in the order the filesystem gives them
InOrder(items, ord) ==
    LET names == SelectSeq(ord, LAMBDA n : \E p \in items : Basename(p) = n)
    IN  [i \in 1..Len(names) |-> CHOOSE p \in items : Basename(p) = names[i]]

\* os.mkdir
MkDir(f, p) ==
    IF p \in DOMAIN f \/ ~(Len(p) = 1 \/ IsDir(f, Parent(p)))
    THEN Outcome(f, "OSError", <<>>)
    ELSE Ok(Put(f, p, DirNode("new")))

\* os.makedirs: the missing ancestors are made first
RECURSIVE MakeDirs(_, _)
MakeDirs(f, p) ==
    IF Len(p) > 1 /\ ~Exists(f, Parent(p))
    THEN LET up == MakeDirs(f, Parent(p))
         IN  IF up.exc # "none" THEN up ELSE MkDir(up.fs, p)
    ELSE MkDir(f, p)

\* shutil.rmtree: refuses a symbolic link, fails on what is no directory
RmTree(f, p) ==
    IF p \in DOMAIN f /\ f[p].kind = "dir"
    THEN Ok(Remove(f, Under(f, p)))
    ELSE Outcome(f, "OSError", <<>>)

----------------------------------------------------------------------------
(* _copytree (manage.py 26-56)                                             *)
(*                                                                         *)
(* src is the path as the caller names it, real the directory it resolves  *)
(* to (they differ below a symbolic link to a directory).  flt gives the   *)
(* entries whose access fails: "read" (open fails: IOError), "stat"        *)
(* (copystat fails: OSError), "list" (listdir fails: OSError), "winstat"   *)
(* (copystat of a directory fails with a WindowsError).                    *)

Failure(srcname, dstname, why) == [src |-> srcname, dst |-> dstname, why |-> why]

RECURSIVE CopyTreeAt(_, _, _, _, _, _, _), CopyEntries(_, _, _, _, _, _, _, _, _)

\* the loop of lines 30-48 over the names still to copy
CopyEntries(f, src, real, dst, names, symlinks, ord, flt, errs) ==
    IF names = <<>> THEN Outcome(f, "none", errs)
    ELSE
    LET name == Head(names)
        srcname == Join(src, name)
        realname == Join(real, name)
        dstname == Join(dst, name)
        target == Resolve(f, realname)
        Continue(g, es) ==
            CopyEntries(g, src, real, dst, Tail(names), symlinks, ord, flt, es)
    IN
    IF symlinks /\ IsLink(f, realname) THEN
        \* os.readlink, os.symlink
        Continue(Put(f, dstname, LinkNode(f[realname].to, "new")), errs)
    ELSE IF IsDir(f, realname) THEN
        LET r == CopyTreeAt(f, srcname, target, dstname, symlinks, ord, flt)
        IN  CASE r.exc = "none" -> Continue(r.fs, errs)
              [] r.exc = "OSError" ->
                    Continue(r.fs, Append(errs, Failure(srcname, dstname, "OSError")))
              [] r.exc = "Error" -> Continue(r.fs, errs \o r.errors)
              [] OTHER -> Outcome(r.fs, r.exc, <<>>)    \* no handler: propagates
    ELSE
        \* shutil.copy2: open() raises IOError, which "except OSError" lets through
        IF ~IsFile(f, realname) \/ FaultAt(flt, target) = "read"
        THEN Outcome(f, "IOError", <<>>)
        ELSE LET g == Put(f, dstname, FileNode(f[target].data, "new"))
             IN  IF FaultAt(flt, target) = "stat"
                 THEN Continue(g, Append(errs, Failure(srcname, dstname, "OSError")))
                 ELSE Continue(g, errs)

CopyTreeAt(f, src, real, dst, symlinks, ord, flt) ==
    IF ~(real \in DOMAIN f /\ f[real].kind = "dir") \/ FaultAt(flt, real) = "list"
    THEN Outcome(f, "OSError", <<>>)                      \* os.listdir(src)
    ELSE
    LET names == ListDir(f, real, ord)
        made == MakeDirs(f, dst)                          \* os.makedirs(dst)
    IN
    IF made.exc # "none" THEN made
    ELSE
    LET loop == CopyEntries(made.fs, src, real, dst, names, symlinks, ord, flt, <<>>)
    IN
    IF loop.exc # "none" THEN loop
    ELSE IF FaultAt(flt, real) = "stat"
         \* copystat(src, dst) raises an OSError without winerror: the handler's
         \* why.winerror raises AttributeError
         THEN Outcome(loop.fs, "AttributeError", <<>>)
    ELSE IF loop.errors # <<>> THEN Outcome(loop.fs, "Error", loop.errors)
    ELSE Ok(loop.fs)

\* every caller leaves symlinks at its default
SymlinksDefault == FALSE

\* a _copytree that keeps symbolic links whatever the caller passes
CopyTreeKeepingLinks(f, src, dst, symlinks, ord, flt) ==
    CopyTreeAt(f, src, Resolve(f, src), dst, TRUE, ord, flt)

_copytree(f, src, dst, symlinks, ord, flt) ==
    CopyTreeAt(f, src, Resolve(f, src), dst, symlinks, ord, flt)


----------------------------------------------------------------------------
(* JSON documents and _render_configuration (manage.py 116-123)            *)
(*                                                                         *)
(* A configuration file holds text: when well-formed, a top-level value    *)
(* that is an object (its members in the order written, a key possibly     *)
(* written twice) or something else.  json.load turns it into a dict (one  *)
(* value per key, the last one written); json.dump writes a dict's members *)
(* in the dict's own order.                                                *)

JsonText(wf, top, members) == [t |-> "json", wf |-> wf, top |-> top, members |-> members]
Member(k, v) == [key |-> k, val |-> v]
StrVal(x) == [vt |-> "str", str |-> x, members |-> <<>>]
ObjVal(ms) == [vt |-> "obj", str |-> "", members |-> ms]
Malformed == JsonText(FALSE, "", <<>>)

\* the order in which a dict yields its keys
DictOrder == <<"Description", "Env", "Parameters", "StackBuildId", "StackConfigurationBucket">>

LastWith(ms, k) ==
    ms[CHOOSE i \in DOMAIN ms :
          ms[i].key = k /\ \A j \in DOMAIN ms : j > i => ms[j].key # k]
\* an object's members as a dict
LoadObject(ms) == [k \in {ms[i].key : i \in DOMAIN ms} |-> LastWith(ms, k).val]
LoadValue(v) ==
    IF v.vt = "obj" THEN [vt |-> "obj", str |-> "", dict |-> LoadObject(v.members)]
    ELSE [vt |-> "str", str |-> v.str, dict |-> LoadObject(<<>>)]
\* json.load of a well-formed text whose top-level value is an object
JsonLoad(text) ==
    LET d == LoadObject(text.members) IN [k \in DOMAIN d |-> LoadValue(d[k])]

DumpKeys(d) == SelectSeq(DictOrder, LAMBDA k : k \in DOMAIN d)
DumpValue(v) ==
    IF v.vt = "obj"
    THEN ObjVal([i \in 1..Len(DumpKeys(v.dict)) |->
                    Member(DumpKeys(v.dict)[i], v.dict[DumpKeys(v.dict)[i]])])
    ELSE StrVal(v.str)
\* json.dump of a dict
JsonDump(d) ==
    JsonText(TRUE, "object",
             [i \in 1..Len(DumpKeys(d)) |-> Member(DumpKeys(d)[i], DumpValue(d[DumpKeys(d)[i]]))])

\* data['Parameters'][k] = v for every k, v of fields
SetParameters(data, fields) ==
    [data EXCEPT !["Parameters"].dict =
        [k \in DOMAIN @ \cup DOMAIN fields |-> IF k \in DOMAIN fields THEN fields[k] ELSE @[k]]]

\* a render that opens the output before it touches the document
RenderOpeningFirst(f, source, destination, fields) ==
    IF ~IsFile(f, source) \/ ~IsDir(f, destination) THEN Outcome(f, "IOError", <<>>)
    ELSE LET text == f[Resolve(f, source)].data
             location == Join(destination, Basename(source))
             opened == Put(f, location, FileNode(JsonText(FALSE, "", <<>>), "new"))
         IN  IF text.t # "json" \/ ~text.wf THEN Outcome(f, "ValueError", <<>>)
             ELSE IF text.top # "object" THEN Outcome(opened, "TypeError", <<>>)
             ELSE IF "Parameters" \notin DOMAIN JsonLoad(text)
                  THEN Outcome(opened, "KeyError", <<>>)
             ELSE IF JsonLoad(text)["Parameters"].vt # "obj"
                  THEN Outcome(opened, "TypeError", <<>>)
             ELSE Ok(Put(f, location,
                         FileNode(JsonDump(SetParameters(JsonLoad(text), fields)), "new")))

_render_configuration(f, source, destination, fields) ==
    IF ~IsFile(f, source) THEN Outcome(f, "IOError", <<>>)         \* open(source)
    ELSE
    LET text == f[Resolve(f, source)].data
        location == Join(destination, Basename(source))
    IN
    IF text.t # "json" \/ ~text.wf THEN Outcome(f, "ValueError", <<>>)   \* json.load
    ELSE IF DOMAIN fields = {} /\ text.top # "object"
         \* nothing is assigned: the value is written back as it was read
         THEN IF IsDir(f, destination)
              THEN Ok(Put(f, location, FileNode(text, "new")))
              ELSE Outcome(f, "IOError", <<>>)
    ELSE IF DOMAIN fields # {} /\ text.top # "object"
         THEN Outcome(f, "TypeError", <<>>)        \* data['Parameters'] of no dict
    ELSE
    LET data == JsonLoad(text) IN
    IF DOMAIN fields # {} /\ "Parameters" \notin DOMAIN data
    THEN Outcome(f, "KeyError", <<>>)
    ELSE IF DOMAIN fields # {} /\ data["Parameters"].vt # "obj"
         THEN Outcome(f, "TypeError", <<>>)        \* item assignment on no dict
    ELSE
    LET rendered == IF DOMAIN fields = {} THEN data ELSE SetParameters(data, fields) IN
    IF ~IsDir(f, destination) THEN Outcome(f, "IOError", <<>>)     \* open(location, 'w')
    ELSE Ok(Put(f, location, FileNode(JsonDump(rendered), "new")))

\* generated fields with the two values the wrong way round
GeneratedFieldsSwapped(initiator, id) ==
    [k \in {"StackConfigurationBucket", "StackBuildId"} |->
        IF k = "StackConfigurationBucket" THEN id ELSE initiator]

\* GENERATED_FIELDS of create_deployment_bundle
GeneratedFields(initiator, id) ==
    [k \in {"StackConfigurationBucket", "StackBuildId"} |->
        IF k = "StackConfigurationBucket" THEN initiator ELSE id]

----------------------------------------------------------------------------
(* Listings (manage.py 58-77)                                              *)

\* _walklevel: the directories os.walk yields, which descends no further
\* than level below some_dir and into no symbolic link
_walklevel(f, some_dir, level) ==
    {p \in Under(f, some_dir) :
        /\ f[p].kind = "dir"
        /\ \A k \in Len(some_dir)..(Len(p) - 1) :
              /\ f[SubSeq(p, 1, k)].kind = "dir"
              /\ ~((Len(some_dir) - 1) + level <= k - 1)}

\* _list_directories; the assert of _walklevel fails on what is no directory
_list_directories(f, directory) ==
    IF ~IsDir(f, directory) THEN [exc |-> "AssertionError", items |-> {}]
    ELSE [exc |-> "none", items |-> {p \in _walklevel(f, directory, 1) : p # directory}]

\* _list_files
_list_files(f, directory, extension) ==
    IF ~IsDir(f, directory) THEN [exc |-> "OSError", items |-> {}]
    ELSE [exc |-> "none",
          items |-> {p \in DOMAIN f : /\ Len(p) = Len(directory) + 1
                                      /\ Parent(p) = directory
                                      /\ EndsWith(Basename(p), extension)}]

----------------------------------------------------------------------------
(* Validators (manage.py 127-185)                                          *)

RECURSIVE PathString(_)
PathString(p) ==
    IF Len(p) = 1 THEN p[1] ELSE PathString(Parent(p)) \o "/" \o Basename(p)

NoBody == [t |-> "none"]
\* a call that leaves the program: to the provider, to the compiler, to pip
Call(api, arg, path, body, ok) ==
    [api |-> api, arg |-> arg, path |-> path, body |-> body, ok |-> ok]

Template(size) == [t |-> "yaml", size |-> size]
\* _get_file_size
_get_file_size(f, path) == f[Resolve(f, path)].data.size

\* hashlib.md5(path).hexdigest()
Md5(path) == "md5(" \o PathString(path) \o ")"
TemplateURL(key) == "https://s3.amazonaws.com/" \o S3_BUCKET \o "/" \o key

Checked(log, exc, ret) == [calls |-> log, exc |-> exc, ret |-> ret]

\* validate_local_cloudformation_template: one validate_template(TemplateBody)
validate_local_cloudformation_template(f, path, log, valid) ==
    LET call == Call("validate_template", "TemplateBody", path, f[Resolve(f, path)].data, valid)
    IN  IF valid THEN Checked(Append(log, call), "none", "response")
        ELSE Checked(Append(log, call), "ClientError", "")

\* validate_remote_cloudformation_template: _upload_to_s3 under the hash of the
\* path, then one validate_template(TemplateURL)
validate_remote_cloudformation_template(f, path, log, uploaded, valid) ==
    LET key == Md5(path)
        up == Call("upload_fileobj", S3_BUCKET \o "/" \o key, path,
                   f[Resolve(f, path)].data, uploaded)
        call == Call("validate_template", TemplateURL(key), path, NoBody, valid)
    IN  IF ~uploaded THEN Checked(Append(log, up), "S3UploadFailedError", "")
        ELSE IF ~valid THEN Checked(log \o <<up, call>>, "ClientError", "")
        ELSE Checked(log \o <<up, call>>, "none", "None")

\* a dispatch that sends a file of exactly the limit the remote way
ValidateTemplateBelowLimit(f, path, log, uploaded, valid) ==
    IF ~IsFile(f, path) THEN Checked(log, "OSError", "")
    ELSE IF _get_file_size(f, path) < CLOUDFORMATION_LOCAL_VALIDATE_LIMIT
         THEN validate_local_cloudformation_template(f, path, log, valid)
         ELSE validate_remote_cloudformation_template(f, path, log, uploaded, valid)

\* validate_cloudformation_template_file; uploaded and valid are the answers
\* of the storage service and of the provider
validate_cloudformation_template_file(f, path, log, uploaded, valid) ==
    IF ~Exists(f, path) THEN Checked(log, "OSError", "")            \* os.stat
    ELSE IF ~IsFile(f, path) THEN Checked(log, "IOError", "")       \* open of a directory
    ELSE IF _get_file_size(f, path) <= CLOUDFORMATION_LOCAL_VALIDATE_LIMIT
         THEN validate_local_cloudformation_template(f, path, log, valid)
         ELSE validate_remote_cloudformation_template(f, path, log, uploaded, valid)

\* validate_configuration_file
validate_configuration_file(f, path) ==
    IF ~IsFile(f, path) THEN "IOError"
    ELSE IF f[Resolve(f, path)].data.t # "json" \/ ~f[Resolve(f, path)].data.wf
         THEN "ValueError"
    ELSE "none"

PySource(ok) == [t |-> "py", ok |-> ok]
Compiled(fresh) == [t |-> "pyc", fresh |-> fresh]
Pyc(path) == Join(Parent(path), Basename(path) \o "c")

\* a compiler that writes its output before it reports the syntax error
PyCompileWritingFirst(f, path) ==
    LET src == f[Resolve(f, path)].data
        g == Put(f, Pyc(path), FileNode(Compiled(TRUE), "new"))
    IN  IF src.t = "py" /\ src.ok THEN Ok(g) ELSE Outcome(g, "PyCompileError", <<>>)

\* py_compile.compile(path, doraise=True): the compiled file is written only
\* once the source has compiled
PyCompile(f, path) ==
    LET src == f[Resolve(f, path)].data
    IN  IF src.t = "py" /\ src.ok
        THEN Ok(Put(f, Pyc(path), FileNode(Compiled(TRUE), "new")))
        ELSE Outcome(f, "PyCompileError", <<>>)

\* a check that looks for function.py alone
BundleStructureSourceOnly(f, path) ==
    IF ~IsDir(f, path) \/ ~IsFile(f, Join(path, LAMBDA_PY_FILE_NAME)) THEN "Exception"
    ELSE "none"

\* the checks of validate_lambda_bundle that come before the compile step
BundleStructure(f, path) ==
    IF ~IsDir(f, path) THEN "Exception"
    ELSE IF \E i \in DOMAIN LAMBDA_REQUIRED_FILES :
               ~IsFile(f, Join(path, LAMBDA_REQUIRED_FILES[i]))
         THEN "Exception"
    ELSE "none"

----------------------------------------------------------------------------
(* Dependency installation and archiving (manage.py 85-104)                *)

\* _install_pip_requirements: pip.main(['install', '-r', path, '-t', target]).
\* What pip does is not the program's: it places packages in target ("deps"),
\* returns having placed none ("none"), or raises ("raise").
PipOutcomes(f, path) ==
    {"none", "raise"} \cup (IF IsFile(f, path) THEN {"deps"} ELSE {})
PipCall(path, target, outcome) ==
    Call("pip.main", "install -r " \o PathString(path) \o " -t " \o PathString(target),
         target, [t |-> "manifest", path |-> path], outcome # "raise")
_install_pip_requirements(f, path, target, outcome) ==
    CASE outcome = "deps" ->
            Ok(Put(f, Join(target, "site.py"), FileNode([t |-> "dep"], "new")))
      [] outcome = "none" -> Ok(f)
      [] OTHER -> Outcome(f, "InstallationError", <<>>)

\* external_attr = 0777 << 16
ZipMode == 511

\* os.walk(source): the files below source that are reached through
\* directories alone
WalkFiles(f, source) ==
    {p \in Below(f, source) : f[p].kind # "dir" /\ ~IsDir(f, p)}

\* _zip_lambda_bundle: every file below source under its relative path, with
\* all permissions
_zip_lambda_bundle(f, source, destination) ==
    LET archive == Join(Parent(destination), Basename(destination) \o ".zip")
        files == WalkFiles(f, source)
        entry(p) == [name |-> SubSeq(p, Len(source) + 1, Len(p)),
                     data |-> f[Resolve(f, p)].data, mode |-> ZipMode]
    IN  IF ~IsDir(f, Parent(destination)) THEN Outcome(f, "IOError", <<>>)
        ELSE IF \E p \in files : ~IsFile(f, p)
             \* open() of a dangling link: the archive is left incomplete
             THEN Outcome(Put(f, archive,
                              FileNode([t |-> "zip",
                                        entries |-> {entry(p) : p \in {q \in files : IsFile(f, q)}}],
                                       "new")),
                          "IOError", <<>>)
        ELSE Ok(Put(f, archive,
                    FileNode([t |-> "zip", entries |-> {entry(p) : p \in files}], "new")))

----------------------------------------------------------------------------
(* The commands.  args.cmd names the command that runs; pc is its place.   *)

NoRes == [exc |-> "none", errors |-> <<>>, at |-> ""]
Raised(e, errs) == [exc |-> e, errors |-> errs, at |-> pc]

Fail(e) ==
    /\ pc' = "failed"
    /\ res' = Raised(e, <<>>)

\* validate_cloudformation_templates: the templates to validate
ListTemplates ==
    /\ pc = "list_templates"
    /\ \E ord \in ListOrders :
          LET l == _list_files(fs, <<CLOUDFORMATION_DIRECTORY>>, ".yaml")
          IN  IF args.filename # <<>>
              THEN pc' = "templates" /\ todo' = <<args.filename>> /\ UNCHANGED res
              ELSE IF l.exc # "none" THEN Fail(l.exc) /\ UNCHANGED todo
              ELSE pc' = "templates" /\ todo' = InOrder(l.items, ord) /\ UNCHANGED res
    /\ UNCHANGED <<fs, args, cur, calls, faults>>

\* _run_for_each: validate_cloudformation_template_file on the next template
ValidateTemplate ==
    /\ pc = "templates"
    /\ todo # <<>>
    /\ \E uploaded \in BOOLEAN, valid \in BOOLEAN :
          LET path == Head(todo)
              r == validate_cloudformation_template_file(fs, path, calls, uploaded, valid)
          IN  /\ calls' = r.calls
              /\ todo' = Tail(todo)
              /\ cur' = path
              /\ IF r.exc # "none" THEN Fail(r.exc) ELSE UNCHANGED <<pc, res>>
    /\ UNCHANGED <<fs, args, faults>>

TemplatesDone ==
    /\ pc = "templates"
    /\ todo = <<>>
    /\ pc' = IF args.cmd = "validate_cloudformation" THEN "done" ELSE "list_bundles"
    /\ cur' = <<>>
    /\ UNCHANGED <<fs, args, todo, calls, res, faults>>

\* validate_lambda_bundles (validate_lambda hands its one path straight to
\* validate_lambda_bundle)
ListBundles ==
    /\ pc = "list_bundles"
    /\ \E ord \in ListOrders :
          LET l == _list_directories(fs, <<LAMBDA_DIRECTORY>>)
          IN  IF args.cmd = "validate_lambda"
              THEN pc' = "bundles" /\ todo' = <<args.directory>> /\ UNCHANGED res
              ELSE IF l.exc # "none" THEN Fail(l.exc) /\ UNCHANGED todo
              ELSE pc' = "bundles" /\ todo' = InOrder(l.items, ord) /\ UNCHANGED res
    /\ UNCHANGED <<fs, args, cur, calls, faults>>

\* validate_lambda_bundle up to and with py_compile.compile
ValidateBundle ==
    /\ pc = "bundles"
    /\ todo # <<>>
    /\ LET path == Head(todo)
              source == Join(path, LAMBDA_PY_FILE_NAME)
              checked == BundleStructure(fs, path)
              r == PyCompile(fs, source)
          IN  /\ todo' = Tail(todo)
              /\ cur' = path
              /\ IF checked # "none"
                 THEN Fail(checked) /\ UNCHANGED <<fs, calls>>
                 ELSE /\ calls' = Append(calls,
                             Call("py_compile.compile", PathString(source), source,
                                  fs[Resolve(fs, source)].data, r.exc = "none"))
                      /\ fs' = r.fs
                      /\ IF r.exc # "none" THEN Fail(r.exc)
                         ELSE pc' = "compiled" /\ UNCHANGED res
    /\ UNCHANGED <<args, faults>>

\* validate_python_file: os.remove(path + 'c')
RemoveCompiled ==
    /\ pc = "compiled"
    /\ fs' = Remove(fs, {Pyc(Join(cur, LAMBDA_PY_FILE_NAME))})
    /\ pc' = "bundles"
    /\ UNCHANGED <<args, todo, cur, calls, res, faults>>

BundlesDone ==
    /\ pc = "bundles"
    /\ todo = <<>>
    /\ pc' = IF args.cmd = "validate_lambda" THEN "done" ELSE "list_configs"
    /\ cur' = <<>>
    /\ UNCHANGED <<fs, args, todo, calls, res, faults>>

Args(cmd, directory, filename, validate, initiator, id, found) ==
    [cmd |-> cmd, directory |-> directory, filename |-> filename, validate |-> validate,
     initiator |-> initiator, id |-> id, found |-> found]

\* validate_configuration_files: the configurations to validate
ListConfigs ==
    /\ pc = "list_configs"
    /\ \E ord \in ListOrders :
          LET l == _list_files(fs, <<CONFIGURATION_DIRECTORY>>, ".json")
          IN  IF args.filename # <<>>
              THEN pc' = "configs" /\ todo' = <<args.filename>> /\ UNCHANGED res
              ELSE IF l.exc # "none" THEN Fail(l.exc) /\ UNCHANGED todo
              ELSE pc' = "configs" /\ todo' = InOrder(l.items, ord) /\ UNCHANGED res
    /\ UNCHANGED <<fs, args, cur, calls, faults>>

\* _run_for_each: validate_configuration_file on the next configuration
ValidateConfig ==
    /\ pc = "configs"
    /\ todo # <<>>
    /\ LET path == Head(todo)
       IN  /\ todo' = Tail(todo)
           /\ cur' = path
           /\ IF validate_configuration_file(fs, path) # "none"
              THEN Fail(validate_configuration_file(fs, path))
              ELSE UNCHANGED <<pc, res>>
    /\ UNCHANGED <<fs, args, calls, faults>>

ConfigsDone ==
    /\ pc = "configs"
    /\ todo = <<>>
    /\ pc' = IF args.cmd = "create_bundle" THEN "reset_output" ELSE "done"
    /\ cur' = <<>>
    /\ UNCHANGED <<fs, args, todo, calls, res, faults>>

----------------------------------------------------------------------------
(* create_deployment_bundle (manage.py 206-250)                            *)

OutputLambdas == Join(args.directory, LAMBDA_DIRECTORY)
OutputTemplates == Join(args.directory, CLOUDFORMATION_DIRECTORY)
OutputConfigs == Join(args.directory, CONFIGURATION_DIRECTORY)
Scratch == <<TMP_DIR>>
ScratchLambdas == <<TMP_DIR, LAMBDA_DIRECTORY>>

\* a filesystem step: on success the filesystem changes and control moves on
Step(r, next) ==
    /\ fs' = r.fs
    /\ IF r.exc # "none" THEN pc' = "failed" /\ res' = Raised(r.exc, r.errors)
       ELSE pc' = next /\ UNCHANGED res

\* a start that clears the output directory before anything is validated
StartClearingFirst ==
    /\ pc = "start"
    /\ pc' = IF args.validate THEN "list_templates" ELSE "reset_output"
    /\ fs' = IF Exists(fs, args.directory) THEN RmTree(fs, args.directory).fs ELSE fs
    /\ UNCHANGED <<args, todo, cur, calls, res, faults>>

\* if validate: ...
Start ==
    /\ pc = "start"
    /\ pc' = IF args.validate THEN "list_templates" ELSE "reset_output"
    /\ UNCHANGED <<fs, args, todo, cur, calls, res, faults>>

\* a reset that leaves an existing output directory in place
ResetOutputKeeping ==
    /\ pc = "reset_output"
    /\ pc' = "reset_scratch"
    /\ UNCHANGED <<fs, args, todo, cur, calls, res, faults>>

\* if os.path.exists(directory): shutil.rmtree(directory)
ResetOutput ==
    /\ pc = "reset_output"
    /\ IF Exists(fs, args.directory)
       THEN Step(RmTree(fs, args.directory), "reset_scratch")
       ELSE pc' = "reset_scratch" /\ UNCHANGED <<fs, res>>
    /\ UNCHANGED <<args, todo, cur, calls, faults>>

\* if os.path.exists(TMP_DIR): shutil.rmtree(TMP_DIR)
ResetScratch ==
    /\ pc = "reset_scratch"
    /\ IF Exists(fs, Scratch)
       THEN Step(RmTree(fs, Scratch), "make_scratch")
       ELSE pc' = "make_scratch" /\ UNCHANGED <<fs, res>>
    /\ UNCHANGED <<args, todo, cur, calls, faults>>

\* os.mkdir(TMP_DIR)
MakeScratch ==
    /\ pc = "make_scratch"
    /\ Step(MkDir(fs, Scratch), "make_output")
    /\ UNCHANGED <<args, todo, cur, calls, faults>>

\* os.mkdir(directory)
MakeOutput ==
    /\ pc = "make_output"
    /\ Step(MkDir(fs, args.directory), "stage_lambdas")
    /\ UNCHANGED <<args, todo, cur, calls, faults>>

\* _copytree(LAMBDA_DIRECTORY, os.path.join(TMP_DIR, LAMBDA_DIRECTORY))
StageLambdas ==
    /\ pc = "stage_lambdas"
    /\ \E ord \in ListOrders :
          Step(_copytree(fs, <<LAMBDA_DIRECTORY>>, ScratchLambdas, SymlinksDefault, ord, faults),
               "make_lambdas")
    /\ UNCHANGED <<args, todo, cur, calls, faults>>

\* os.mkdir(os.path.join(directory, LAMBDA_DIRECTORY))
MakeLambdas ==
    /\ pc = "make_lambdas"
    /\ Step(MkDir(fs, OutputLambdas), "list_staged")
    /\ UNCHANGED <<args, todo, cur, calls, faults>>

\* lambdas = _list_directories(os.path.join(TMP_DIR, LAMBDA_DIRECTORY))
ListStaged ==
    /\ pc = "list_staged"
    /\ \E ord \in ListOrders :
          LET l == _list_directories(fs, ScratchLambdas)
          IN  IF l.exc # "none" THEN Fail(l.exc) /\ UNCHANGED todo
              ELSE pc' = "bundling" /\ todo' = InOrder(l.items, ord) /\ UNCHANGED res
    /\ UNCHANGED <<fs, args, cur, calls, faults>>

\* the next bundle: _install_pip_requirements(bundle/requirements.txt, bundle)
InstallRequirements ==
    /\ pc = "bundling"
    /\ todo # <<>>
    /\ LET bundle == Head(todo)
           manifest == Join(bundle, "requirements.txt")
       IN  \E outcome \in PipOutcomes(fs, manifest) :
              /\ calls' = Append(calls, PipCall(manifest, bundle, outcome))
              /\ todo' = Tail(todo)
              /\ cur' = bundle
              /\ Step(_install_pip_requirements(fs, manifest, bundle, outcome), "zip")
    /\ UNCHANGED <<args, faults>>

\* _zip_lambda_bundle(source=bundle, destination=directory/lambdas/<name>)
ZipBundle ==
    /\ pc = "zip"
    /\ Step(_zip_lambda_bundle(fs, cur, Join(OutputLambdas, Basename(cur))), "bundling")
    /\ UNCHANGED <<args, todo, cur, calls, faults>>

BundlingDone ==
    /\ pc = "bundling"
    /\ todo = <<>>
    /\ pc' = "copy_templates"
    /\ cur' = <<>>
    /\ UNCHANGED <<fs, args, todo, calls, res, faults>>

\* _copytree(CLOUDFORMATION_DIRECTORY, os.path.join(directory, CLOUDFORMATION_DIRECTORY))
CopyTemplates ==
    /\ pc = "copy_templates"
    /\ \E ord \in ListOrders :
          Step(_copytree(fs, <<CLOUDFORMATION_DIRECTORY>>, OutputTemplates, SymlinksDefault,
                         ord, faults),
               "make_configs")
    /\ UNCHANGED <<args, todo, cur, calls, faults>>

\* os.mkdir(os.path.join(directory, CONFIGURATION_DIRECTORY))
MakeConfigs ==
    /\ pc = "make_configs"
    /\ Step(MkDir(fs, OutputConfigs), "list_render")
    /\ UNCHANGED <<args, todo, cur, calls, faults>>

\* configurations = _list_files(CONFIGURATION_DIRECTORY, ".json")
ListRender ==
    /\ pc = "list_render"
    /\ \E ord \in ListOrders :
          LET l == _list_files(fs, <<CONFIGURATION_DIRECTORY>>, ".json")
          IN  IF l.exc # "none" THEN Fail(l.exc) /\ UNCHANGED todo
              ELSE pc' = "rendering" /\ todo' = InOrder(l.items, ord) /\ UNCHANGED res
    /\ UNCHANGED <<fs, args, cur, calls, faults>>

\* the next configuration: _render_configuration(config, directory/configs, GENERATED_FIELDS)
RenderConfiguration ==
    /\ pc = "rendering"
    /\ todo # <<>>
    /\ LET config == Head(todo)
       IN  /\ todo' = Tail(todo)
           /\ cur' = config
           /\ Step(_render_configuration(fs, config, OutputConfigs,
                                        GeneratedFields(args.initiator, args.id)),
                  "rendering")
    /\ UNCHANGED <<args, calls, faults>>

RenderingDone ==
    /\ pc = "rendering"
    /\ todo = <<>>
    /\ pc' = "remove_scratch"
    /\ cur' = <<>>
    /\ UNCHANGED <<fs, args, todo, calls, res, faults>>

\* an end that leaves the scratch workspace behind
FinishKeepingScratch ==
    /\ pc = "remove_scratch"
    /\ pc' = "done"
    /\ UNCHANGED <<fs, args, todo, cur, calls, res, faults>>

\* shutil.rmtree(TMP_DIR)
RemoveScratch ==
    /\ pc = "remove_scratch"
    /\ Step(RmTree(fs, Scratch), "done")
    /\ UNCHANGED <<args, todo, cur, calls, faults>>

----------------------------------------------------------------------------
(* validate-cloudformation [--filename PATH]                               *)

TemplatePath(i) == <<CLOUDFORMATION_DIRECTORY, TemplateName(i)>>
NearLimit ==
    (CLOUDFORMATION_LOCAL_VALIDATE_LIMIT - SizeSpread)
        ..(CLOUDFORMATION_LOCAL_VALIDATE_LIMIT + SizeSpread)

\* cloudformation/ with a text file and, for each i, no template or one of
\* the size sizes[i] (0: none)
TemplateTree(sizes) ==
    LET present == {i \in DOMAIN sizes : sizes[i] # 0}
        paths == {<<CLOUDFORMATION_DIRECTORY>>, <<CLOUDFORMATION_DIRECTORY, "README.txt">>}
                    \cup {TemplatePath(i) : i \in present}
    IN  [p \in paths |->
            IF p = <<CLOUDFORMATION_DIRECTORY>> THEN DirNode("old")
            ELSE IF p = <<CLOUDFORMATION_DIRECTORY, "README.txt">>
                 THEN FileNode(Blob("readme"), "old")
            ELSE FileNode(Template(sizes[CHOOSE i \in present : TemplatePath(i) = p]), "old")]

InitCfn ==
    /\ \E sizes \in [1..MaxTemplates -> NearLimit \cup {0}] : fs = TemplateTree(sizes)
    /\ \E filename \in {<<>>, TemplatePath(1)} :
          args = Args("validate_cloudformation", <<>>, filename, FALSE, "", "", fs)
    /\ pc = "list_templates"
    /\ todo = <<>>
    /\ cur = <<>>
    /\ calls = <<>>
    /\ res = NoRes
    /\ faults = NoFaults

NextCfn == ListTemplates \/ ValidateTemplate \/ TemplatesDone

SpecCfn == InitCfn /\ [][NextCfn]_vars

----------------------------------------------------------------------------
(* validate-lambda --directory PATH                                        *)

BundleUnderTest == <<LAMBDA_DIRECTORY, "b1">>
ExtraName(i) == "aux" \o ToString(i)

\* what may stand where function.py should
SourceShapes ==
    {[kind |-> "none"], FileNode(PySource(TRUE), "old"), FileNode(PySource(FALSE), "old"),
     DirNode("old"), LinkNode(<<"shared", "function.py">>, "old"),
     LinkNode(<<"shared", "gone.py">>, "old")}
ManifestShapes == {[kind |-> "none"], FileNode([t |-> "req"], "old"), DirNode("old")}
StaleShapes == {[kind |-> "none"], FileNode(Compiled(FALSE), "old")}

PutIf(f, p, node) == IF node.kind = "none" THEN f ELSE Put(f, p, node)

LambdaBase ==
    [p \in {<<LAMBDA_DIRECTORY>>, <<"shared">>, <<"shared", "function.py">>} |->
        IF p = <<"shared", "function.py">> THEN FileNode(PySource(TRUE), "old")
        ELSE DirNode("old")]

BundleTree(source, manifest, stale, extras) ==
    LET b == Put(LambdaBase, BundleUnderTest, DirNode("old"))
        withFiles ==
            PutIf(PutIf(PutIf(b, Join(BundleUnderTest, LAMBDA_PY_FILE_NAME), source),
                        Join(BundleUnderTest, "requirements.txt"), manifest),
                  Join(BundleUnderTest, "function.pyc"), stale)
    IN  [p \in DOMAIN withFiles \cup {Join(BundleUnderTest, ExtraName(i)) : i \in 1..extras} |->
            IF p \in DOMAIN withFiles THEN withFiles[p] ELSE FileNode(Blob("aux"), "old")]

LambdaTrees ==
    {LambdaBase, Put(LambdaBase, BundleUnderTest, FileNode(Blob("file"), "old"))} \cup
    {BundleTree(s, m, c, n) :
        s \in SourceShapes, m \in ManifestShapes, c \in StaleShapes, n \in 0..MaxExtras}

InitLambda ==
    /\ fs \in LambdaTrees
    /\ args = Args("validate_lambda", BundleUnderTest, <<>>, FALSE, "", "", fs)
    /\ pc = "list_bundles"
    /\ todo = <<>>
    /\ cur = <<>>
    /\ calls = <<>>
    /\ res = NoRes
    /\ faults = NoFaults

NextLambda == ListBundles \/ ValidateBundle \/ RemoveCompiled \/ BundlesDone

SpecLambda == InitLambda /\ [][NextLambda]_vars

----------------------------------------------------------------------------
(* C6                                                                      *)

CallsFor(path) == SelectSeq(calls, LAMBDA c : c.path = path)
\* the templates whose validation has run
TemplatesVisited ==
    {p \in DOMAIN fs : /\ fs[p].kind = "file"
                       /\ fs[p].data.t = "yaml"
                       /\ pc \in {"templates", "done", "failed"}
                       /\ p \notin Range(todo)
                       /\ args.filename \in {<<>>, p}}

\* C6: a template of at most 51,200 bytes is validated by exactly one
\* validate_template call that carries its body, with no upload; a larger one
\* by exactly one upload to the bucket and then, only if the upload succeeded,
\* exactly one validate_template call by the URL of the uploaded key; no call
\* is repeated and any failure ends the validation with an error.
C6_DispatchOnSize ==
    /\ \A p \in TemplatesVisited :
          LET cs == CallsFor(p)
              size == fs[p].data.size
          IN  /\ size <= 51200 =>
                    /\ Len(cs) = 1
                    /\ cs[1].api = "validate_template"
                    /\ cs[1].arg = "TemplateBody"
                    /\ cs[1].body = fs[p].data
              /\ size > 51200 =>
                    /\ Len(cs) \in {1, 2}
                    /\ cs[1].api = "upload_fileobj"
                    /\ cs[1].arg = S3_BUCKET \o "/" \o Md5(p)
                    /\ cs[1].body = fs[p].data
                    /\ Len(cs) = 2 <=> cs[1].ok
                    /\ Len(cs) = 2 =>
                          /\ cs[2].api = "validate_template"
                          /\ cs[2].arg = "https://s3.amazonaws.com/" \o cs[1].arg
                          /\ cs[2].body = NoBody
    /\ \A i \in DOMAIN calls : ~calls[i].ok => i = Len(calls) /\ pc = "failed"
    /\ \A p \in DOMAIN fs : p \notin TemplatesVisited => CallsFor(p) = <<>>

\* a run that validated a template of exactly 51,200 bytes by its body and one
\* of 51,201 bytes by upload and URL
C6_Witness ==
    /\ pc = "done"
    /\ \E p, q \in TemplatesVisited :
          /\ fs[p].data.size = 51200
          /\ fs[q].data.size = 51201
          /\ Len(CallsFor(p)) = 1
          /\ Len(CallsFor(q)) = 2

----------------------------------------------------------------------------
(* C7, C8                                                                  *)

\* validate_lambda_bundle has returned or raised
BundleValidated == args.cmd = "validate_lambda" /\ pc \in {"done", "failed"}
CompileCalls == SelectSeq(calls, LAMBDA c : c.api = "py_compile.compile")
\* the path, as found, is a directory that holds both required files
WellFormedBundle ==
    LET found == args.found
        has(name) ==
            LET p == Join(args.directory, name)
            IN  /\ p \in DOMAIN found
                /\ \/ found[p].kind = "file"
                   \/ /\ found[p].kind = "link"
                      /\ found[p].to \in DOMAIN found
                      /\ found[found[p].to].kind = "file"
    IN  /\ args.directory \in DOMAIN found
        /\ found[args.directory].kind = "dir"
        /\ has("function.py")
        /\ has("requirements.txt")

\* C7: a path that is no directory, or a directory without function.py or
\* requirements.txt, makes validate_lambda_bundle fail with a structure error
\* and the compile step never starts; the compile step runs only when the
\* path is a directory holding both files.
C7_StructureBeforeCompile ==
    /\ CompileCalls # <<>> => WellFormedBundle
    /\ BundleValidated =>
          IF WellFormedBundle THEN Len(CompileCalls) = 1
          ELSE /\ pc = "failed"
               /\ res.exc = "Exception"
               /\ res.at = "bundles"
               /\ calls = <<>>
               /\ fs = args.found

\* a bundle with a valid function.py and no requirements.txt was refused
C7_Witness ==
    /\ BundleValidated
    /\ pc = "failed"
    /\ res.exc = "Exception"
    /\ IsFile(args.found, Join(args.directory, "function.py"))
    /\ args.found[Resolve(args.found, Join(args.directory, "function.py"))].data.ok
    /\ ~Exists(args.found, Join(args.directory, "requirements.txt"))

BundlePyc == Join(args.directory, "function.pyc")

----------------------------------------------------------------------------
(* _copytree on its own: the trees and failures it is given                *)

\* the directory i levels below src: src, src/d, src/d/d, ...
Chain(i) == [j \in 1..(i + 1) |-> IF j = 1 THEN "src" ELSE "d"]
CopyLevels == 0..MaxDepth
LinkTargets == {<<"ext", "t">>, <<"ext">>, <<"ext", "gone">>}

\* src: a chain of directories, a file f in each; ext: what links point to
CopyBase ==
    LET dirs == {Chain(i) : i \in CopyLevels}
        files == {Join(Chain(i), "f") : i \in CopyLevels}
        all == dirs \cup files \cup {<<"ext">>, <<"ext", "t">>}
    IN  [p \in all |->
            IF p \in dirs \/ p = <<"ext">> THEN DirNode("old")
            ELSE FileNode(Blob(IF p = <<"ext", "t">> THEN "t" ELSE ToString(Len(p))), "old")]

CopyTrees ==
    {CopyBase} \cup
    {Put(CopyBase, Join(Chain(i), "l"), LinkNode(to, "old")) :
        i \in CopyLevels, to \in LinkTargets}

FaultNodes == DOMAIN CopyBase \ {<<"ext">>}
FaultKinds(p) ==
    IF CopyBase[p].kind = "dir" THEN {"none", "list", "stat", "winstat"}
    ELSE {"none", "read", "stat"}
FaultAssignments ==
    {flt \in [FaultNodes -> {"none", "read", "stat", "list", "winstat"}] :
        /\ \A p \in FaultNodes : flt[p] \in FaultKinds(p)
        /\ Cardinality({p \in FaultNodes : flt[p] # "none"}) <= MaxFaults}

\* the names of the model, in one order and its reverse: two of the orders
\* os.listdir may give


InitCopy ==
    /\ fs \in CopyTrees \cup {Put(t, <<"dst">>, DirNode("old")) : t \in CopyTrees}
    /\ faults \in FaultAssignments
    /\ pc = "copy"
    /\ args = [src |-> <<"src">>, dst |-> <<"dst">>]
    /\ todo = <<>>
    /\ cur = <<>>
    /\ calls = <<>>
    /\ res = NoRes

\* _copytree(src, dst), called as create_deployment_bundle calls it
CopyTreeCall ==
    /\ pc = "copy"
    /\ \E ord \in ListOrders :
        LET r == _copytree(fs, args.src, args.dst, SymlinksDefault, ord, faults)
        IN  /\ fs' = r.fs
            /\ res' = Raised(r.exc, r.errors)
    /\ pc' = "done"
    /\ UNCHANGED <<args, todo, cur, calls, faults>>

NextCopy == CopyTreeCall

SpecCopy == InitCopy /\ [][NextCopy]_vars

----------------------------------------------------------------------------
(* C9: what _copytree, called with two arguments, leaves behind            *)


\* where the entry named p below src lands below dst
CopyDst(p) == <<"dst">> \o SubSeq(p, 2, Len(p))
\* the node an entry's name leads to, through a link to a directory if need be
RealPath(p) ==
    IF p \in DOMAIN fs THEN Resolve(fs, p)
    ELSE Join(Resolve(fs, Parent(p)), Basename(p))
\* the names the copy has to deal with: the entries below src and, below a
\* link to a directory, the entries of that directory
CopyItems ==
    Below(fs, <<"src">>) \cup
    UNION {{Join(l, Basename(q)) : q \in {y \in DOMAIN fs : Len(y) > 1
                                              /\ Parent(y) = Resolve(fs, l)}} :
           l \in {x \in Below(fs, <<"src">>) : IsLink(fs, x) /\ IsDir(fs, x)}}
ItemKind(p) == IF RealPath(p) \in DOMAIN fs THEN fs[RealPath(p)].kind ELSE "missing"
ItemFault(p) == FaultAt(faults, RealPath(p))
\* every directory on the way from src to p can be listed
Reached(p) ==
    \A k \in 1..(Len(p) - 1) : FaultAt(faults, RealPath(SubSeq(p, 1, k))) # "list"
\* failures of an entry that the loop's handlers catch ...
CaughtFailure(p) ==
    \/ ItemKind(p) = "file" /\ ItemFault(p) = "stat"
    \/ ItemKind(p) = "dir" /\ ItemFault(p) = "list"
\* ... and those no handler of the loop catches
UncaughtFailure(p) ==
    \/ ItemKind(p) = "missing"
    \/ ItemKind(p) = "file" /\ ItemFault(p) = "read"
    \/ ItemKind(p) = "dir" /\ ItemFault(p) = "stat"
CopyStarted == FaultAt(faults, <<"src">>) # "list" /\ fs[<<"dst">>].born = "new"
CopyBroken ==
    \/ FaultAt(faults, <<"src">>) = "stat"
    \/ \E p \in CopyItems : Reached(p) /\ UncaughtFailure(p)
CopyCaught == {p \in CopyItems : Reached(p) /\ CaughtFailure(p)}
CopyFinished == pc = "done" /\ <<"dst">> \in DOMAIN fs /\ CopyStarted

----------------------------------------------------------------------------
(* _render_configuration on its own                                        *)

SeqsUpTo(S, n) == UNION {[1..k -> S] : k \in 0..n}

ParameterMembers == {Member("StackBuildId", "old"), Member("Env", "prod")}
ParameterValues ==
    {ObjVal(ms) : ms \in SeqsUpTo(ParameterMembers, MaxMembers)} \cup {StrVal("x")}
TopMembers ==
    {Member("Parameters", v) : v \in ParameterValues} \cup {Member("Description", StrVal("d"))}
ConfigTexts ==
    {JsonText(TRUE, "object", ms) : ms \in SeqsUpTo(TopMembers, MaxMembers)}
        \cup {JsonText(TRUE, "array", <<>>), Malformed}

Initiators == {"I1"}
BuildIds == {"B1", "B2"}

RenderSource == <<CONFIGURATION_DIRECTORY, "c.json">>
RenderBase(text) ==
    [p \in {<<CONFIGURATION_DIRECTORY>>, RenderSource, <<"out">>, <<"again">>} |->
        IF p = RenderSource THEN FileNode(text, "old") ELSE DirNode("old")]

InitRender ==
    /\ \E text \in ConfigTexts :
          fs \in {RenderBase(text),
                  Put(RenderBase(text), <<"out", "c.json">>, FileNode(Malformed, "old"))}
    /\ \E i \in Initiators, b \in BuildIds :
          args = [source |-> RenderSource, destination |-> <<"out">>,
                  fields |-> GeneratedFields(i, b)]
    /\ pc = "render"
    /\ todo = <<>>
    /\ cur = <<>>
    /\ calls = <<>>
    /\ res = NoRes
    /\ faults = NoFaults

RenderStep(a, next) ==
    LET r == _render_configuration(fs, a.source, a.destination, a.fields)
    IN  /\ fs' = r.fs
        /\ res' = Raised(r.exc, r.errors)
        /\ pc' = IF r.exc = "none" THEN next ELSE "failed"
        /\ args' = a
        /\ UNCHANGED <<todo, cur, calls, faults>>

\* the first rendering of the source
Render == pc = "render" /\ RenderStep(args, "rendered")

\* the same rendering once more, over the output of the first
RenderTwice == pc = "rendered" /\ RenderStep(args, "twice")

\* the rendering of the first rendering's own output, into another directory
RenderOutput ==
    /\ pc = "rendered"
    /\ RenderStep([args EXCEPT !.source = Join(args.destination, Basename(args.source)),
                               !.destination = <<"again">>], "own")

NextRender == Render \/ RenderTwice \/ RenderOutput

SpecRender == InitRender /\ [][NextRender]_vars

----------------------------------------------------------------------------
(* C10                                                                     *)

\* the text holds a top-level object whose Parameters member is an object
HasParameters(text) ==
    /\ text.wf
    /\ text.top = "object"
    /\ \E i \in DOMAIN text.members : text.members[i].key = "Parameters"
    /\ LastWith(text.members, "Parameters").val.vt = "obj"

\* out is the document of src with Parameters[k] = fields[k] for every key of
\* fields and nothing else changed
RenderedFrom(src, out, fields) ==
    /\ HasParameters(out)
    /\ \A k \in {"Description", "Env", "Parameters", "StackBuildId",
                 "StackConfigurationBucket"} :
          LET has(t) == \E i \in DOMAIN t.members : t.members[i].key = k
          IN  /\ has(out) <=> has(src)
              /\ has(src) /\ k # "Parameters" =>
                    LastWith(out.members, k).val = LastWith(src.members, k).val
    /\ LET ps == LastWith(src.members, "Parameters").val.members
           po == LastWith(out.members, "Parameters").val.members
           has(ms, k) == \E i \in DOMAIN ms : ms[i].key = k
       IN  \A k \in {"Description", "Env", "Parameters", "StackBuildId",
                     "StackConfigurationBucket"} :
              /\ has(po, k) <=> (has(ps, k) \/ k \in DOMAIN fields)
              /\ has(po, k) =>
                    LastWith(po, k).val =
                        (IF k \in DOMAIN fields THEN fields[k] ELSE LastWith(ps, k).val)
    \* what was written names no key twice
    /\ \A i, j \in DOMAIN out.members : out.members[i].key = out.members[j].key => i = j

\* C10: a rendering writes, under the source's base name in the destination,
\* the source document with Parameters[k] = fields[k] for every key of fields
\* and everything else unchanged; rendering again, or rendering the output,
\* gives the same document; a source without a Parameters object makes it fail
\* with no output file written.
C10_RenderSetsGeneratedFields ==
    LET src == fs[RenderSource].data
        out == <<"out", "c.json">>
    IN  /\ pc \in {"rendered", "twice", "own"} =>
              /\ HasParameters(src)
              /\ out \in DOMAIN fs
              /\ fs[out].born = "new"
              /\ RenderedFrom(src, fs[out].data, args.fields)
        /\ pc = "own" =>
              /\ <<"again", "c.json">> \in DOMAIN fs
              /\ fs[<<"again", "c.json">>].data = fs[out].data
        /\ pc = "failed" =>
              /\ ~HasParameters(src)
              /\ \A p \in Under(fs, <<"out">>) \cup Under(fs, <<"again">>) : fs[p].born = "old"
        /\ pc # "render" /\ ~HasParameters(src) => pc = "failed"

\* the output of a rendering was rendered again: the source named a key twice,
\* held a StackBuildId that the rendering replaced and an Env it kept
C10_Witness ==
    /\ pc = "own"
    /\ LET ps == LastWith(fs[RenderSource].data.members, "Parameters").val.members
       IN  /\ Len(ps) = 2
           /\ \E i \in DOMAIN ps : ps[i].key = "StackBuildId"
           /\ \E i \in DOMAIN ps : ps[i].key = "Env"
    /\ Len(fs[RenderSource].data.members) = 2
    /\ fs[RenderSource].data.members[1].key = "Parameters"
    /\ fs[RenderSource].data.members[2].key = "Parameters"

----------------------------------------------------------------------------
(* create-bundle --initiator I --id B [--directory D] [--validate BOOL]    *)

BundleShapes == {"absent", "sound", "faulty", "stale"}
TemplateSizes ==
    {0, CLOUDFORMATION_LOCAL_VALIDATE_LIMIT, CLOUDFORMATION_LOCAL_VALIDATE_LIMIT + 1}
ConfigShapes == {"absent", "full", "bare", "malformed"}

Nothing == [p \in {} |-> DirNode("old")]

BundlePath(i) == <<LAMBDA_DIRECTORY, BundleName(i)>>
ConfigPath(i) == <<CONFIGURATION_DIRECTORY, ConfigName(i)>>

\* lambdas/ with a text file and the bundles of the given shapes: a sound one
\* compiles, a faulty one does not, a stale one holds an earlier function.pyc
LambdaTree(shapes) ==
    LET present == {i \in DOMAIN shapes : shapes[i] # "absent"}
        shape(p) == shapes[CHOOSE i \in present : BundlePath(i) = SubSeq(p, 1, 2)]
        paths == {<<LAMBDA_DIRECTORY>>, <<LAMBDA_DIRECTORY, "README">>}
                    \cup {BundlePath(i) : i \in present}
                    \cup {Join(BundlePath(i), n) : i \in present, n \in Range(LAMBDA_REQUIRED_FILES)}
                    \cup {Join(BundlePath(i), "function.pyc") :
                            i \in {j \in present : shapes[j] = "stale"}}
    IN  [p \in paths |->
            CASE Len(p) = 1 -> DirNode("old")
              [] Len(p) = 2 /\ Basename(p) = "README" -> FileNode(Blob("readme"), "old")
              [] Len(p) = 2 /\ Basename(p) # "README" -> DirNode("old")
              [] Basename(p) = LAMBDA_PY_FILE_NAME ->
                    FileNode(PySource(shape(p) # "faulty"), "old")
              [] Basename(p) = "function.pyc" -> FileNode(Compiled(FALSE), "old")
              [] OTHER -> FileNode(Blob("requirements"), "old")]

FullConfig ==
    JsonText(TRUE, "object",
             <<Member("Description", StrVal("d")),
               Member("Parameters", ObjVal(<<Member("Env", "prod")>>))>>)
BareConfig == JsonText(TRUE, "object", <<Member("Description", StrVal("d"))>>)

\* configs/ with a text file and the configurations of the given shapes
ConfigTree(shapes) ==
    LET present == {i \in DOMAIN shapes : shapes[i] # "absent"}
        shape(p) == shapes[CHOOSE i \in present : ConfigPath(i) = p]
        paths == {<<CONFIGURATION_DIRECTORY>>, <<CONFIGURATION_DIRECTORY, "notes.txt">>}
                    \cup {ConfigPath(i) : i \in present}
    IN  [p \in paths |->
            CASE Len(p) = 1 -> DirNode("old")
              [] Basename(p) = "notes.txt" -> FileNode(Blob("notes"), "old")
              [] OTHER -> FileNode(CASE shape(p) = "full" -> FullConfig
                                     [] shape(p) = "bare" -> BareConfig
                                     [] OTHER -> Malformed,
                                   "old")]

\* what an earlier run left in the output directory
StaleOutput(directory) ==
    LET paths == {directory, Join(directory, "old.txt"),
                  Join(directory, LAMBDA_DIRECTORY),
                  Join(Join(directory, LAMBDA_DIRECTORY), BundleName(1) \o ".zip"),
                  Join(directory, CONFIGURATION_DIRECTORY),
                  Join(Join(directory, CONFIGURATION_DIRECTORY), ConfigName(1))}
    IN  [p \in paths |->
            CASE Basename(p) = "old.txt" -> FileNode(Blob("old"), "old")
              [] Basename(p) = BundleName(1) \o ".zip" ->
                    FileNode([t |-> "zip", entries |-> {}], "old")
              [] Basename(p) = ConfigName(1) -> FileNode(BareConfig, "old")
              [] OTHER -> DirNode("old")]

\* what a failed earlier run left in the scratch workspace
StaleScratch ==
    [p \in {Scratch, ScratchLambdas, Join(ScratchLambdas, "junk")} |->
        IF Basename(p) = "junk" THEN FileNode(Blob("junk"), "old") ELSE DirNode("old")]

\* the run starts in a checkout with the three inputs, in which an earlier
\* run may have left its output directory ("output") and a failed one its
\* scratch workspace as well ("both")
InitBundle(directories, leftovers, shapes, sizes) ==
    /\ \E bundles \in [1..MaxBundles -> shapes], size \in sizes,
          configs \in [1..MaxConfigs -> ConfigShapes], directory \in directories,
          validate \in BOOLEAN :
          \E left \in IF directory = <<DEFAULT_BUNDLE_DIRECTORY>> THEN leftovers ELSE {"none"} :
              /\ fs = LambdaTree(bundles) @@ TemplateTree(<<size>>) @@ ConfigTree(configs)
                        @@ (IF left # "none" THEN StaleOutput(directory) ELSE Nothing)
                        @@ (IF left = "both" THEN StaleScratch ELSE Nothing)
              /\ args = Args("create_bundle", directory, <<>>, validate, "I1", "B1", fs)
    /\ pc = "start"
    /\ todo = <<>>
    /\ cur = <<>>
    /\ calls = <<>>
    /\ res = NoRes
    /\ faults = NoFaults

Init ==
    InitBundle({<<DEFAULT_BUNDLE_DIRECTORY>>}, {"none", "output", "both"},
               BundleShapes \ {"stale"}, TemplateSizes \ {CLOUDFORMATION_LOCAL_VALIDATE_LIMIT})

Next ==
    \/ Start
    \/ ListTemplates
    \/ ValidateTemplate
    \/ TemplatesDone
    \/ ListBundles
    \/ ValidateBundle
    \/ RemoveCompiled
    \/ BundlesDone
    \/ ListConfigs
    \/ ValidateConfig
    \/ ConfigsDone
    \/ ResetOutput
    \/ ResetScratch
    \/ MakeScratch
    \/ MakeOutput
    \/ StageLambdas
    \/ MakeLambdas
    \/ ListStaged
    \/ InstallRequirements
    \/ ZipBundle
    \/ BundlingDone
    \/ CopyTemplates
    \/ MakeConfigs
    \/ ListRender
    \/ RenderConfiguration
    \/ RenderingDone
    \/ RemoveScratch

Spec == Init /\ [][Next]_vars

\* --directory may name any path: the default, an input directory, a bundle,
\* the scratch workspace
OutputChoices ==
    {<<DEFAULT_BUNDLE_DIRECTORY>>, <<LAMBDA_DIRECTORY>>, <<CONFIGURATION_DIRECTORY>>,
     <<CLOUDFORMATION_DIRECTORY>>, BundlePath(1), Scratch}

InitAnyDir == InitBundle(OutputChoices, {"output"}, BundleShapes, TemplateSizes)

SpecAnyDir == InitAnyDir /\ [][Next]_vars

----------------------------------------------------------------------------
(* Claims about create_deployment_bundle                                   *)

ValidationSteps ==
    {"list_templates", "templates", "list_bundles", "bundles", "compiled",
     "list_configs", "configs"}
ValidatorCalls == {"validate_template", "upload_fileobj", "py_compile.compile"}
At(steps) == pc \in steps \/ (pc = "failed" /\ res.at \in steps)

\* the subtree at root is, entry for entry, what the run found
SubtreeAsFound(root) ==
    \A p \in Under(fs, root) \cup Under(args.found, root) :
        p \in DOMAIN fs /\ p \in DOMAIN args.found /\ fs[p] = args.found[p]

\* every validator ran on every artifact the run found, and none failed
AllValidatorsPassed ==
    /\ \A i \in DOMAIN calls : calls[i].api \in ValidatorCalls => calls[i].ok
    /\ \A t \in _list_files(args.found, <<CLOUDFORMATION_DIRECTORY>>, ".yaml").items :
          \E i \in DOMAIN calls : calls[i].api = "validate_template" /\ calls[i].path = t
    /\ \A b \in _list_directories(args.found, <<LAMBDA_DIRECTORY>>).items :
          /\ \A n \in Range(LAMBDA_REQUIRED_FILES) : IsFile(args.found, Join(b, n))
          /\ args.found[Join(b, LAMBDA_PY_FILE_NAME)].data.ok
          /\ \E i \in DOMAIN calls : /\ calls[i].api = "py_compile.compile"
                                     /\ calls[i].path = Join(b, LAMBDA_PY_FILE_NAME)
    /\ \A c \in _list_files(args.found, <<CONFIGURATION_DIRECTORY>>, ".json").items :
          args.found[c].data.wf

\* C1: with validate=true, as long as validation runs and when a validator
\* has failed (the run is then over), the output directory and the scratch
\* workspace are exactly as found; the run goes past validation only when
\* every validator has passed; with validate=false no validator runs.
C1_ValidationBeforeAnyOutput ==
    /\ args.validate /\ At(ValidationSteps \cup {"start"}) =>
          SubtreeAsFound(args.directory) /\ SubtreeAsFound(Scratch)
    /\ args.validate /\ ~At(ValidationSteps \cup {"start"}) => AllValidatorsPassed
    /\ ~args.validate =>
          /\ ~At(ValidationSteps)
          /\ \A i \in DOMAIN calls : calls[i].api \notin ValidatorCalls

\* the configuration validator fails, after the two before it passed, in a
\* checkout where earlier runs left an output directory and a workspace
C1_Witness ==
    /\ args.validate
    /\ pc = "failed"
    /\ res.at = "configs"
    /\ \E i \in DOMAIN calls : calls[i].api = "py_compile.compile"
    /\ Below(args.found, args.directory) # {}
    /\ Below(args.found, Scratch) # {}
    /\ SubtreeAsFound(args.directory)

\* C2: whatever the output directory held, once the run has reset it nothing
\* is in it until it is made anew, and after a successful run every entry in
\* it was made by this run.
C2_OutputFullyReplaced ==
    /\ pc \in {"reset_scratch", "make_scratch", "make_output"} =>
          Under(fs, args.directory) = {}
    /\ pc = "done" => \A p \in Under(fs, args.directory) : fs[p].born = "new"

\* a successful run over an output directory that held an earlier bundle
C2_Witness ==
    /\ pc = "done"
    /\ Join(args.directory, "old.txt") \in DOMAIN args.found
    /\ Join(OutputLambdas, BundleName(1) \o ".zip") \in DOMAIN args.found
    /\ Join(OutputLambdas, BundleName(1) \o ".zip") \in DOMAIN fs
    /\ Join(args.directory, "old.txt") \notin DOMAIN fs

InputDirectories ==
    {<<CLOUDFORMATION_DIRECTORY>>, <<LAMBDA_DIRECTORY>>, <<CONFIGURATION_DIRECTORY>>}

\* C3: whatever output directory is given, the three input directories stay
\* as found throughout the run, and pip is only called with a manifest and a
\* target in the scratch workspace.
C3_InputsNeverModified ==
    /\ \A d \in InputDirectories : SubtreeAsFound(d)
    /\ \A i \in DOMAIN calls :
          calls[i].api = "pip.main" =>
              /\ IsPrefix(Scratch, calls[i].path)
              /\ IsPrefix(Scratch, calls[i].body.path)

AfterStaging ==
    {"make_lambdas", "list_staged", "bundling", "zip", "copy_templates", "make_configs",
     "list_render", "rendering", "remove_scratch"}

\* C4: a run that is done has removed the scratch workspace, whether or not
\* it was there before; a run that failed after staging has removed neither
\* the workspace nor what it had put in the output directory.
C4_ScratchRemovedOnSuccessOnly ==
    /\ pc = "done" => Under(fs, Scratch) = {}
    /\ pc = "failed" /\ res.at \in AfterStaging =>
          /\ IsDir(fs, ScratchLambdas)
          /\ IsDir(fs, OutputLambdas)
          /\ \A i \in DOMAIN calls :
                calls[i].api = "pip.main" /\ calls[i].ok /\ calls[i].path # cur =>
                    IsFile(fs, Join(OutputLambdas, Basename(calls[i].path) \o ".zip"))

\* a run over a workspace left by an earlier run is done
C4_Witness ==
    /\ pc = "done"
    /\ Join(ScratchLambdas, "junk") \in DOMAIN args.found
    /\ Scratch \notin DOMAIN fs
    /\ \E i \in DOMAIN calls : calls[i].api = "pip.main"

ZipEntries(f, bundle) ==
    {[name |-> SubSeq(p, Len(bundle) + 1, Len(p)), data |-> f[p].data, mode |-> ZipMode] :
        p \in WalkFiles(f, bundle)}
Archive(bundle) == Join(OutputLambdas, Basename(bundle) \o ".zip")
Rebase(p, root) == root \o SubSeq(p, 2, Len(p))

\* C5: after a successful run the output directory holds exactly lambdas/,
\* cloudformation/ and configs/; lambdas/ holds exactly <name>.zip for every
\* child directory <name> of the Lambda root, with the files of the bundle
\* and at most what pip added; cloudformation/ is a copy of the
\* cloudformation directory; configs/ holds exactly the *.json files of the
\* configuration directory, rendered with StackBuildId = id and
\* StackConfigurationBucket = initiator.  At any moment an archive of this
\* run follows a pip call on the bundle's scratch copy and holds what that
\* copy holds.
C5_OutputTreeExact ==
    /\ \A b \in _list_directories(fs, ScratchLambdas).items :
          Archive(b) \in DOMAIN fs /\ fs[Archive(b)].born = "new" =>
              /\ \E i \in DOMAIN calls : /\ calls[i].api = "pip.main"
                                         /\ calls[i].path = b
                                         /\ calls[i].body.path = Join(b, "requirements.txt")
                                         /\ calls[i].ok
              /\ fs[Archive(b)].data = [t |-> "zip", entries |-> ZipEntries(fs, b)]
    /\ pc = "done" =>
          LET bundles == _list_directories(fs, <<LAMBDA_DIRECTORY>>).items
              configs == _list_files(fs, <<CONFIGURATION_DIRECTORY>>, ".json").items
              added == {[name |-> <<"site.py">>, data |-> [t |-> "dep"], mode |-> ZipMode]}
          IN  /\ {p \in Below(fs, args.directory) : Len(p) = Len(args.directory) + 1}
                    = {OutputLambdas, OutputTemplates, OutputConfigs}
              /\ Below(fs, OutputLambdas) = {Archive(b) : b \in bundles}
              /\ \A b \in bundles :
                    /\ fs[Archive(b)].kind = "file"
                    /\ fs[Archive(b)].data.t = "zip"
                    /\ fs[Archive(b)].data.entries \in
                          {ZipEntries(fs, b), ZipEntries(fs, b) \cup added}
              /\ Under(fs, OutputTemplates)
                    = {Rebase(p, OutputTemplates) : p \in Under(fs, <<CLOUDFORMATION_DIRECTORY>>)}
              /\ \A p \in Under(fs, <<CLOUDFORMATION_DIRECTORY>>) :
                    /\ fs[Rebase(p, OutputTemplates)].kind = fs[p].kind
                    /\ fs[p].kind = "file" => fs[Rebase(p, OutputTemplates)].data = fs[p].data
              /\ Below(fs, OutputConfigs) = {Rebase(c, OutputConfigs) : c \in configs}
              /\ \A c \in configs :
                    /\ fs[Rebase(c, OutputConfigs)].kind = "file"
                    /\ RenderedFrom(fs[c].data, fs[Rebase(c, OutputConfigs)].data,
                                    [k \in {"StackBuildId", "StackConfigurationBucket"} |->
                                        IF k = "StackBuildId" THEN args.id ELSE args.initiator])

\* a successful run over two bundles, a template and a configuration
C5_Witness ==
    /\ pc = "done"
    /\ Cardinality(Below(fs, OutputLambdas)) = 2
    /\ \E p \in Below(fs, OutputLambdas) : Cardinality(fs[p].data.entries) = 3
    /\ Join(OutputTemplates, TemplateName(1)) \in DOMAIN fs
    /\ Join(OutputConfigs, ConfigName(1)) \in DOMAIN fs

====
